---- MODULE Spec2Model ----
(***************************************************************************)
(* Model of finance_app.py: the SQLite store (categories, goals,           *)
(* transactions), the ledger operations of the Tk handlers and the query   *)
(* functions.  Texts are sequences of one-character strings so that the    *)
(* conversions the program performs on them (Decimal(), str(),             *)
(* datetime.fromisoformat(), SQLite's text comparison, csv) are computed   *)
(* character by character.                                                 *)
(***************************************************************************)
EXTENDS Integers, Sequences, FiniteSets, TLC

VARIABLES pc, schema, categories, goals, transactions, tx_seq, msg, last

vars == <<pc, schema, categories, goals, transactions, tx_seq, msg, last>>

store == <<schema, categories, goals, transactions, tx_seq>>

(***************************************************************************)
(* Texts                                                                   *)
(***************************************************************************)

DigitChars == <<"0", "1", "2", "3", "4", "5", "6", "7", "8", "9">>

UpperChars ==
    << "A", "B", "C", "D", "E", "F", "G", "H", "I", "J", "K", "L", "M", "N",
       "O", "P", "Q", "R", "S", "T", "U", "V", "W", "X", "Y", "Z" >>

LowerChars ==
    << "a", "b", "c", "d", "e", "f", "g", "h", "i", "j", "k", "l", "m", "n",
       "o", "p", "q", "r", "s", "t", "u", "v", "w", "x", "y", "z" >>

\* The characters the model's texts use, in code-point order (SQLite's
\* BINARY collation compares TEXT values byte by byte).
AsciiOrder ==
    <<" ", "\"", "+", ",", "-", ".">> \o DigitChars \o <<":">>
      \o UpperChars \o <<"_">> \o LowerChars

Ord(c) == CHOOSE i \in 1..Len(AsciiOrder) : AsciiOrder[i] = c

IsDigit(c) == \E i \in 1..10 : DigitChars[i] = c

DigitVal(c) == (CHOOSE i \in 1..10 : DigitChars[i] = c) - 1

DigitChar(n) == DigitChars[n + 1]

\* str.lower() / SQLite's ASCII case folding of one character
Lower(c) ==
    IF \E i \in 1..26 : UpperChars[i] = c
      THEN LowerChars[CHOOSE i \in 1..26 : UpperChars[i] = c]
    ELSE c

LowerText(s) == [i \in 1..Len(s) |-> Lower(s[i])]

Drop(s, n) == IF n >= Len(s) THEN <<>> ELSE SubSeq(s, n + 1, Len(s))

Take(s, n) == IF n >= Len(s) THEN s ELSE SubSeq(s, 1, n)

RECURSIVE LStrip(_)
LStrip(s) == IF s # <<>> /\ s[1] = " " THEN LStrip(Tail(s)) ELSE s

RECURSIVE RStrip(_)
RStrip(s) ==
    IF s # <<>> /\ s[Len(s)] = " " THEN RStrip(SubSeq(s, 1, Len(s) - 1)) ELSE s

\* str.strip() (the texts of the model hold no other white space)
Strip(s) == RStrip(LStrip(s))

\* a < b for TEXT values: the first differing character decides, a proper
\* prefix is smaller
RECURSIVE TextLess(_, _)
TextLess(a, b) ==
    IF b = <<>> THEN FALSE
    ELSE IF a = <<>> THEN TRUE
    ELSE IF a[1] = b[1] THEN TextLess(Tail(a), Tail(b))
    ELSE Ord(a[1]) < Ord(b[1])

TextLeq(a, b) == a = b \/ TextLess(a, b)

\* the longest prefix of s made of digits
RECURSIVE TakeDigits(_)
TakeDigits(s) ==
    IF s # <<>> /\ IsDigit(s[1]) THEN <<s[1]>> \o TakeDigits(Tail(s)) ELSE <<>>

Zeros(n) == [i \in 1..n |-> "0"]

\* str(int(digits)): no leading zeros, "0" for zero
RECURSIVE StripLeadingZeros(_)
StripLeadingZeros(ds) ==
    IF Len(ds) > 1 /\ ds[1] = "0" THEN StripLeadingZeros(Tail(ds))
    ELSE IF ds = <<>> THEN <<"0">> ELSE ds

\* int(digits) for short digit strings
RECURSIVE IntOf(_)
IntOf(ds) ==
    IF ds = <<>> THEN 0
    ELSE 10 * IntOf(SubSeq(ds, 1, Len(ds) - 1)) + DigitVal(ds[Len(ds)])

\* str(n) for n >= 0
RECURSIVE NatText(_)
NatText(n) ==
    IF n < 10 THEN <<DigitChar(n)>>
    ELSE NatText(n \div 10) \o <<DigitChar(n % 10)>>

\* "%0<w>d" % n
Padded(n, w) ==
    LET t == NatText(n) IN IF Len(t) >= w THEN t ELSE Zeros(w - Len(t)) \o t

(***************************************************************************)
(* decimal.Decimal, as the program uses it (context precision Prec,        *)
(* rounding ROUND_HALF_EVEN).  A Decimal is a sign, a coefficient (a digit  *)
(* string without leading zeros) and an exponent, or an infinity or a NaN. *)
(***************************************************************************)

\* getcontext().prec
Prec == 28

Fin(sign, int, exp) == [kind |-> "fin", sign |-> sign, int |-> int, exp |-> exp]

Special(kind, sign) == [kind |-> kind, sign |-> sign, int |-> <<"0">>, exp |-> 0]

\* decimal.InvalidOperation raised: by Decimal(text) when the text is no
\* numeric string, by Infinity - Infinity
InvalidOperation == Special("error", 0)

\* Decimal(0)
DecZero == Fin(0, <<"0">>, 0)

InfinityText == <<"I", "n", "f", "i", "n", "i", "t", "y">>

\* the exponent part of a numeric string: empty, or E, an optional sign,
\* one or more digits
ParseExp(r) ==
    IF r = <<>> THEN [ok |-> TRUE, val |-> 0]
    ELSE IF Lower(r[1]) # "e" THEN [ok |-> FALSE, val |-> 0]
    ELSE LET t == Tail(r)
             neg == t # <<>> /\ t[1] = "-"
             u == IF t # <<>> /\ t[1] \in {"+", "-"} THEN Tail(t) ELSE t
             ds == TakeDigits(u)
         IN  IF ds = <<>> \/ Len(ds) # Len(u) THEN [ok |-> FALSE, val |-> 0]
             ELSE [ok |-> TRUE, val |-> IF neg THEN 0 - IntOf(ds) ELSE IntOf(ds)]

\* Decimal(text): exact, no rounding to the context precision
Decimal(text) ==
    LET s == Strip(text)
        sign == IF s # <<>> /\ s[1] = "-" THEN 1 ELSE 0
        body == IF s # <<>> /\ s[1] \in {"+", "-"} THEN Tail(s) ELSE s
        low == LowerText(body)
        intp == TakeDigits(body)
        r1 == Drop(body, Len(intp))
        hasdot == r1 # <<>> /\ r1[1] = "."
        frac == IF hasdot THEN TakeDigits(Tail(r1)) ELSE <<>>
        r2 == IF hasdot THEN Drop(r1, 1 + Len(frac)) ELSE r1
        e == ParseExp(r2)
        nanrest == IF Take(low, 3) = <<"n", "a", "n">> THEN Drop(low, 3)
                   ELSE Drop(low, 4)
    IN  IF low = <<"i", "n", "f">> \/ low = LowerText(InfinityText)
          THEN Special("inf", sign)
        ELSE IF (Take(low, 3) = <<"n", "a", "n">> \/ Take(low, 4) = <<"s", "n", "a", "n">>)
                /\ Len(TakeDigits(nanrest)) = Len(nanrest)
          THEN Special("nan", sign)
        ELSE IF intp = <<>> /\ frac = <<>> THEN InvalidOperation
        ELSE IF ~e.ok THEN InvalidOperation
        ELSE Fin(sign, StripLeadingZeros(intp \o frac), e.val - Len(frac))

IsZero(d) == d.kind = "fin" /\ d.int = <<"0">>

\* dec <= 0 for a Decimal that is no NaN (comparing a NaN raises)
LeqZero(d) == IsZero(d) \/ d.sign = 1

\* "%+d" % n
SignedText(n) == IF n < 0 THEN <<"-">> \o NatText(0 - n) ELSE <<"+">> \o NatText(n)

\* str(dec)
DecStr(d) ==
    LET sg == IF d.sign = 1 THEN <<"-">> ELSE <<>>
        n == Len(d.int)
        leftdigits == d.exp + n
        dotplace == IF d.exp <= 0 /\ leftdigits > -6 THEN leftdigits ELSE 1
        intpart == IF dotplace <= 0 THEN <<"0">>
                   ELSE IF dotplace >= n THEN d.int \o Zeros(dotplace - n)
                   ELSE Take(d.int, dotplace)
        fracpart == IF dotplace <= 0 THEN <<".">> \o Zeros(0 - dotplace) \o d.int
                    ELSE IF dotplace >= n THEN <<>>
                    ELSE <<".">> \o Drop(d.int, dotplace)
        e == IF leftdigits = dotplace THEN <<>>
             ELSE <<"E">> \o SignedText(leftdigits - dotplace)
    IN  IF d.kind = "inf" THEN sg \o InfinityText
        ELSE IF d.kind = "nan" THEN sg \o <<"N", "a", "N">>
        ELSE sg \o intpart \o fracpart \o e

AllZeros(ds) == \A i \in 1..Len(ds) : ds[i] = "0"

\* _round_half_even(int, digits): 1 when the kept digits are to be
\* incremented, 0 when the dropped digits are all zero, -1 otherwise
RoundHalfEven(int, digits) ==
    LET rest == Drop(int, digits)
        exacthalf == rest[1] = "5" /\ AllZeros(Tail(rest))
    IN  IF exacthalf /\ (digits = 0 \/ DigitVal(int[digits]) % 2 = 0) THEN -1
        ELSE IF DigitVal(rest[1]) >= 5 THEN 1
        ELSE IF AllZeros(rest) THEN 0
        ELSE -1

\* x + y + carry for digit strings of equal length
RECURSIVE AddAligned(_, _, _)
AddAligned(x, y, carry) ==
    IF x = <<>> THEN (IF carry = 1 THEN <<"1">> ELSE <<>>)
    ELSE LET n == Len(x)
             s == DigitVal(x[n]) + DigitVal(y[n]) + carry
         IN  AddAligned(SubSeq(x, 1, n - 1), SubSeq(y, 1, n - 1), s \div 10)
               \o <<DigitChar(s % 10)>>

\* x - y - borrow for digit strings of equal length, x >= y
RECURSIVE SubAligned(_, _, _)
SubAligned(x, y, borrow) ==
    IF x = <<>> THEN <<>>
    ELSE LET n == Len(x)
             s == DigitVal(x[n]) - DigitVal(y[n]) - borrow
         IN  SubAligned(SubSeq(x, 1, n - 1), SubSeq(y, 1, n - 1),
                        IF s < 0 THEN 1 ELSE 0)
               \o <<DigitChar(IF s < 0 THEN s + 10 ELSE s)>>

PadLeft(ds, n) == IF Len(ds) >= n THEN ds ELSE Zeros(n - Len(ds)) \o ds

\* str(int(coeff) + 1)
IncDigits(ds) == StripLeadingZeros(AddAligned(ds, PadLeft(<<"1">>, Len(ds)), 0))

\* Decimal._rescale(exp, ROUND_HALF_EVEN)
Rescale(d, exp) ==
    IF d.kind # "fin" THEN d
    ELSE IF IsZero(d) THEN Fin(d.sign, <<"0">>, exp)
    ELSE IF d.exp >= exp THEN Fin(d.sign, d.int \o Zeros(d.exp - exp), exp)
    ELSE LET digits0 == Len(d.int) + d.exp - exp
             int == IF digits0 < 0 THEN <<"1">> ELSE d.int
             digits == IF digits0 < 0 THEN 0 ELSE digits0
             kept == IF digits = 0 THEN <<"0">> ELSE Take(int, digits)
         IN  Fin(d.sign,
                 IF RoundHalfEven(int, digits) = 1 THEN IncDigits(kept) ELSE kept,
                 exp)

\* Decimal._fix(context): round to Prec significant digits
Fix(d) ==
    IF d.kind # "fin" \/ IsZero(d) \/ Len(d.int) <= Prec THEN d
    ELSE LET exp_min == Len(d.int) + d.exp - Prec
             kept == Take(d.int, Prec)
             up == IF RoundHalfEven(d.int, Prec) = 1 THEN IncDigits(kept) ELSE kept
         IN  IF Len(up) > Prec THEN Fin(d.sign, Take(up, Prec), exp_min + 1)
             ELSE Fin(d.sign, up, exp_min)

Min(a, b) == IF a < b THEN a ELSE b

Max(a, b) == IF a > b THEN a ELSE b

\* Decimal.__add__ (no NaN operand reaches it: a NaN amount is never
\* stored).  The sum is the exact sum written at the smaller exponent, then
\* rounded by _fix; _normalize only shortens the work for far-apart exponents.
DecAdd(a, b) ==
    IF a.kind = "error" \/ b.kind = "error" THEN InvalidOperation
    ELSE IF a.kind = "inf"
      THEN (IF b.kind = "inf" /\ a.sign # b.sign THEN InvalidOperation ELSE a)
    ELSE IF b.kind = "inf" THEN b
    ELSE LET exp == Min(a.exp, b.exp) IN
      IF IsZero(a) /\ IsZero(b) THEN Fix(Fin(Min(a.sign, b.sign), <<"0">>, exp))
      ELSE IF IsZero(a) THEN Fix(Rescale(b, Max(exp, b.exp - Prec - 1)))
      ELSE IF IsZero(b) THEN Fix(Rescale(a, Max(exp, a.exp - Prec - 1)))
      ELSE LET x0 == a.int \o Zeros(a.exp - exp)
               y0 == b.int \o Zeros(b.exp - exp)
               n == Max(Len(x0), Len(y0))
               x == PadLeft(x0, n)
               y == PadLeft(y0, n)
           IN  IF a.sign = b.sign
                 THEN Fix(Fin(a.sign, StripLeadingZeros(AddAligned(x, y, 0)), exp))
               ELSE IF x = y THEN Fix(Fin(0, <<"0">>, exp))
               ELSE IF TextLess(x, y)
                 THEN Fix(Fin(b.sign, StripLeadingZeros(SubAligned(y, x, 0)), exp))
               ELSE Fix(Fin(a.sign, StripLeadingZeros(SubAligned(x, y, 0)), exp))

\* Decimal.__sub__: self + (-other)
DecSub(a, b) == DecAdd(a, [b EXCEPT !.sign = 1 - b.sign])

\* f"{dec:.2f}"
Format2f(d) ==
    IF d.kind # "fin" THEN DecStr(d)
    ELSE LET r == Rescale(d, -2)
             n == Len(r.int)
             dotplace == r.exp + n
             intpart == IF dotplace <= 0 THEN <<"0">> ELSE Take(r.int, dotplace)
             fracpart == IF dotplace < 0 THEN Zeros(0 - dotplace) \o r.int
                         ELSE Drop(r.int, dotplace)
         IN  (IF r.sign = 1 THEN <<"-">> ELSE <<>>) \o intpart \o <<".">> \o fracpart

\* a == b for Decimals (no NaN): the same sign and the same digits once
\* both are written at the smaller exponent
DecEq(a, b) ==
    IF a.kind # "fin" \/ b.kind # "fin" THEN a.kind = b.kind /\ a.sign = b.sign
    ELSE IF IsZero(a) \/ IsZero(b) THEN IsZero(a) /\ IsZero(b)
    ELSE LET exp == Min(a.exp, b.exp)
         IN  a.sign = b.sign
             /\ a.int \o Zeros(a.exp - exp) = b.int \o Zeros(b.exp - exp)

(***************************************************************************)
(* datetime: calendar dates and fromisoformat                              *)
(***************************************************************************)

IsLeap(y) == y % 4 = 0 /\ (y % 100 # 0 \/ y % 400 = 0)

DaysInMonth(y, m) ==
    IF m = 2 THEN (IF IsLeap(y) THEN 29 ELSE 28)
    ELSE IF m \in {4, 6, 9, 11} THEN 30 ELSE 31

\* date(y, m, d).isoformat()
isoformat(y, m, d) ==
    Padded(y, 4) \o <<"-">> \o Padded(m, 2) \o <<"-">> \o Padded(d, 2)

AllDigits(s) == s # <<>> /\ \A i \in 1..Len(s) : IsDigit(s[i])

\* the time part of an ISO text in the extended format: HH, HH:MM or HH:MM:SS
TimeOk(t) ==
    /\ Len(t) \in {2, 5, 8}
    /\ AllDigits(SubSeq(t, 1, 2)) /\ IntOf(SubSeq(t, 1, 2)) < 24
    /\ Len(t) >= 5 =>
         t[3] = ":" /\ AllDigits(SubSeq(t, 4, 5)) /\ IntOf(SubSeq(t, 4, 5)) < 60
    /\ Len(t) = 8 =>
         t[6] = ":" /\ AllDigits(SubSeq(t, 7, 8)) /\ IntOf(SubSeq(t, 7, 8)) < 60

\* datetime.fromisoformat(s) on the extended format YYYY-MM-DD[*HH[:MM[:SS]]]
\* (* is any one character): ok, and the calendar date of the result
fromisoformat(s) ==
    LET shape == /\ Len(s) >= 10
                 /\ AllDigits(SubSeq(s, 1, 4)) /\ s[5] = "-"
                 /\ AllDigits(SubSeq(s, 6, 7)) /\ s[8] = "-"
                 /\ AllDigits(SubSeq(s, 9, 10))
        y == IntOf(SubSeq(s, 1, 4))
        m == IntOf(SubSeq(s, 6, 7))
        d == IntOf(SubSeq(s, 9, 10))
        ok == /\ shape
              /\ y >= 1 /\ m \in 1..12 /\ d >= 1 /\ d <= DaysInMonth(y, m)
              /\ Len(s) = 10 \/ (Len(s) > 11 /\ TimeOk(Drop(s, 11)))
    IN  IF ok THEN [ok |-> TRUE, y |-> y, m |-> m, d |-> d]
        ELSE [ok |-> FALSE, y |-> 0, m |-> 0, d |-> 0]

\* date - timedelta(days=1)
DayBefore(y, m, d) ==
    IF d > 1 THEN <<y, m, d - 1>>
    ELSE IF m > 1 THEN <<y, m - 1, DaysInMonth(y, m - 1)>>
    ELSE <<y - 1, 12, 31>>

(***************************************************************************)
(* The store: the three tables of finance.db                               *)
(***************************************************************************)

\* Python's None / SQL NULL in a TEXT column or a text argument
None == <<"None">>

\* SQL NULL in transactions.goal_id (row ids start at 1)
NoGoal == 0

\* bool(x) for an optional text
Truthy(x) == x # None /\ x # <<>>

default_cats ==
    << <<"S", "a", "l", "a", "r", "y">>,
       <<"F", "o", "o", "d">>,
       <<"R", "e", "n", "t">>,
       <<"U", "t", "i", "l", "i", "t", "i", "e", "s">>,
       <<"T", "r", "a", "n", "s", "p", "o", "r", "t">>,
       <<"E", "n", "t", "e", "r", "t", "a", "i", "n", "m", "e", "n", "t">>,
       <<"H", "e", "a", "l", "t", "h">>,
       <<"S", "a", "v", "i", "n", "g", "s">>,
       <<"M", "i", "s", "c", "e", "l", "l", "a", "n", "e", "o", "u", "s">> >>

\* init_db seeding on every run instead of on an empty table only
SeededCategories_always(cats) == cats \o default_cats

\* init_db: seed the categories when the table is empty
SeededCategories(cats) == IF Len(cats) = 0 THEN default_cats ELSE cats

\* the transactions in rowid order: a table scan without ORDER BY
RECURSIVE ById(_)
ById(rows) ==
    IF rows = {} THEN <<>>
    ELSE LET r == CHOOSE x \in rows : \A o \in rows : x.id <= o.id
         IN  <<r>> \o ById(rows \ {r})

\* INSERT INTO transactions: the AUTOINCREMENT id is one more than the
\* largest id ever used
add_transaction(txs, seq, date_str, ttype, category, amount, notes, goal_id) ==
    txs \cup {[id |-> seq + 1, date |-> date_str, type |-> ttype,
               category |-> category, amount |-> DecStr(amount),
               notes |-> notes, goal_id |-> goal_id]}

\* DELETE ... WHERE id<=? instead of id=?
delete_transaction_upto(txs, tx_id) == {r \in txs : r.id > tx_id}

\* DELETE FROM transactions WHERE id=?
delete_transaction(txs, tx_id) == {r \in txs : r.id # tx_id}

\* INSERT INTO goals: the id is the position in the table (no goal is deleted)
add_goal(gs, name, target_amount, deadline) ==
    Append(gs, [name |-> name, target_amount |-> DecStr(target_amount),
                deadline |-> deadline])

\* a lookup that answers the id the next goal would get when no name matches
GoalIdByName_fresh(gs, goal_name) ==
    IF \E i \in 1..Len(gs) : gs[i].name = goal_name
      THEN CHOOSE i \in 1..Len(gs) :
             /\ gs[i].name = goal_name
             /\ \A j \in 1..Len(gs) : gs[j].name = goal_name => i <= j
    ELSE Len(gs) + 1

\* a lookup that falls back to the first goal when no name matches
GoalIdByName_first(gs, goal_name) ==
    IF \E i \in 1..Len(gs) : gs[i].name = goal_name
      THEN CHOOSE i \in 1..Len(gs) : gs[i].name = goal_name
    ELSE IF Len(gs) > 0 THEN 1 ELSE 0

\* SELECT id FROM goals WHERE name = ? ... fetchone(): the first match of the
\* table scan, or no row (0)
GoalIdByName(gs, goal_name) ==
    IF \E i \in 1..Len(gs) : gs[i].name = goal_name
      THEN CHOOSE i \in 1..Len(gs) :
             /\ gs[i].name = goal_name
             /\ \A j \in 1..Len(gs) : gs[j].name = goal_name => i <= j
    ELSE NoGoal

\* sum(Decimal(x["amount"]) for x in rows), rows in scan order, from 0
RECURSIVE SumAmounts(_)
SumAmounts(rows) ==
    IF rows = <<>> THEN DecZero
    ELSE DecAdd(SumAmounts(SubSeq(rows, 1, Len(rows) - 1)),
                Decimal(rows[Len(rows)].amount))

\* get_goals summing by goal name: a transaction counts for every goal that
\* carries the name of the goal it references
get_goals_by_name(gs, txs) ==
    [gid \in 1..Len(gs) |->
        [id |-> gid, name |-> gs[gid].name,
         target |-> Decimal(gs[gid].target_amount),
         deadline |-> gs[gid].deadline,
         progress |-> SumAmounts(ById({r \in txs :
                         /\ r.goal_id \in 1..Len(gs)
                         /\ gs[r.goal_id].name = gs[gid].name}))]]

\* get_goals summing every transaction, the WHERE goal_id = ? left out
get_goals_unfiltered(gs, txs) ==
    [gid \in 1..Len(gs) |->
        [id |-> gid, name |-> gs[gid].name,
         target |-> Decimal(gs[gid].target_amount),
         deadline |-> gs[gid].deadline,
         progress |-> SumAmounts(ById(txs))]]

\* get_goals: every goal with its progress, recomputed from the transactions
get_goals(gs, txs) ==
    [gid \in 1..Len(gs) |->
        [id |-> gid, name |-> gs[gid].name,
         target |-> Decimal(gs[gid].target_amount),
         deadline |-> gs[gid].deadline,
         progress |-> SumAmounts(ById({r \in txs : r.goal_id = gid}))]]

(***************************************************************************)
(* Queries                                                                 *)
(***************************************************************************)

AllText == <<"A", "l", "l">>

\* text LIKE '%pat%': a substring match, ASCII letters compared without case
\* (the patterns of the model hold no % or _)
Like(text, pat) ==
    \E i \in 1..(Len(text) - Len(pat) + 1) :
        SubSeq(LowerText(text), i, i + Len(pat) - 1) = LowerText(pat)

\* ORDER BY date DESC, id DESC: a comes before b
Before(a, b) == TextLess(b.date, a.date) \/ (a.date = b.date /\ a.id > b.id)

RECURSIVE OrderRows(_)
OrderRows(rows) ==
    IF rows = {} THEN <<>>
    ELSE LET r == CHOOSE x \in rows : \A o \in rows \ {x} : Before(x, o)
         IN  <<r>> \o OrderRows(rows \ {r})

\* LEFT JOIN goals g ON t.goal_id = g.id: g.name, or NULL without a match
JoinGoalName(gs, r) ==
    IF r.goal_id # NoGoal /\ r.goal_id \in 1..Len(gs) THEN gs[r.goal_id].name
    ELSE None

\* the WHERE clause fetch_transactions builds
Matches(r, date_from, date_to, category, search) ==
    /\ Truthy(date_from) => TextLeq(date_from, r.date)
    /\ Truthy(date_to) => TextLeq(r.date, date_to)
    /\ (Truthy(category) /\ category # AllText) => r.category = category
    /\ Truthy(search) => (Like(r.notes, search) \/ Like(r.category, search))

\* LIMIT ?: a negative limit is no limit
Limited(rows, limit) == IF limit < 0 THEN rows ELSE Take(rows, limit)

fetch_transactions(gs, txs, date_from, date_to, category, search, limit) ==
    LET hit == {r \in txs : Matches(r, date_from, date_to, category, search)}
        rows == Limited(OrderRows(hit), limit)
    IN  [i \in 1..Len(rows) |->
            [id |-> rows[i].id, date |-> rows[i].date, type |-> rows[i].type,
             category |-> rows[i].category, amount |-> rows[i].amount,
             notes |-> rows[i].notes, goal_id |-> rows[i].goal_id,
             goal_name |-> JoinGoalName(gs, rows[i])]]

IncomeText == <<"I", "n", "c", "o", "m", "e">>

ExpenseText == <<"E", "x", "p", "e", "n", "s", "e">>

\* the position of the first "-" of s (month_year.split("-"))
DashAt(s) == CHOOSE i \in 1..Len(s) : s[i] = "-" /\ \A j \in 1..(i - 1) : s[j] # "-"

\* the first and the last day sum_month computes for "YYYY-MM"
MonthRange(month_year) ==
    LET y == IntOf(Take(month_year, DashAt(month_year) - 1))
        m == IntOf(Drop(month_year, DashAt(month_year)))
        next_month == IF m = 12 THEN <<y + 1, 1, 1>> ELSE <<y, m + 1, 1>>
        end == DayBefore(next_month[1], next_month[2], next_month[3])
    IN  [start |-> isoformat(y, m, 1), end |-> isoformat(end[1], end[2], end[3])]

\* WHERE date BETWEEN ? AND ?
Between(r, start, end) == TextLeq(start, r.date) /\ TextLeq(r.date, end)

\* sum_month: (income, expense) of the month; every type but Income counts
\* as expense
sum_month(txs, month_year) ==
    LET range == MonthRange(month_year)
        rows == {r \in txs : Between(r, range.start, range.end)}
    IN  [income |-> SumAmounts(ById({r \in rows : r.type = IncomeText})),
         expense |-> SumAmounts(ById({r \in rows : r.type # IncomeText}))]

\* update_month_summary: the three totals shown for the month
update_month_summary(txs, my) ==
    LET s == sum_month(txs, my)
    IN  [income |-> s.income, expense |-> s.expense,
         bal |-> DecSub(s.income, s.expense)]

(***************************************************************************)
(* CSV export (csv.writer, excel dialect) and re-reading (csv.reader)      *)
(***************************************************************************)

\* what csv.writer writes for a value: str(value), "" for None
CsvStr(v) == IF v = None THEN <<>> ELSE v

RECURSIVE DoubleQuotes(_)
DoubleQuotes(s) ==
    IF s = <<>> THEN <<>>
    ELSE (IF s[1] = "\"" THEN <<"\"", "\"">> ELSE <<s[1]>>) \o DoubleQuotes(Tail(s))

\* QUOTE_MINIMAL: a field holding the delimiter or the quote character is
\* quoted, its quotes doubled (the fields of the model hold no line break)
CsvField(s) ==
    IF \E i \in 1..Len(s) : s[i] \in {",", "\""}
      THEN <<"\"">> \o DoubleQuotes(s) \o <<"\"">>
    ELSE s

RECURSIVE CsvLine(_)
CsvLine(fields) ==
    IF Len(fields) = 1 THEN CsvField(fields[1])
    ELSE CsvField(fields[1]) \o <<",">> \o CsvLine(Tail(fields))

CsvHeader ==
    << <<"i", "d">>, <<"d", "a", "t", "e">>, <<"t", "y", "p", "e">>,
       <<"c", "a", "t", "e", "g", "o", "r", "y">>,
       <<"a", "m", "o", "u", "n", "t">>, <<"n", "o", "t", "e", "s">>,
       <<"g", "o", "a", "l", "_", "n", "a", "m", "e">> >>

\* export_transactions_csv: the lines written to the file
export_transactions_csv(rows) ==
    <<CsvLine(CsvHeader)>> \o
    [i \in 1..Len(rows) |->
        CsvLine(<<NatText(rows[i].id), rows[i].date, rows[i].type,
                  rows[i].category, rows[i].amount, CsvStr(rows[i].notes),
                  CsvStr(rows[i].goal_name)>>)]

\* csv.reader on one line: state is the parser's state, field the field
\* being read, fields the fields read so far
RECURSIVE CsvParse(_, _, _, _)
CsvParse(line, state, field, fields) ==
    IF line = <<>> THEN Append(fields, field)
    ELSE LET c == line[1]
             rest == Tail(line)
         IN  CASE state = "START_FIELD" ->
                    IF c = "\"" THEN CsvParse(rest, "IN_QUOTED_FIELD", <<>>, fields)
                    ELSE IF c = "," THEN CsvParse(rest, "START_FIELD", <<>>, Append(fields, <<>>))
                    ELSE CsvParse(rest, "IN_FIELD", <<c>>, fields)
               [] state = "IN_FIELD" ->
                    IF c = "," THEN CsvParse(rest, "START_FIELD", <<>>, Append(fields, field))
                    ELSE CsvParse(rest, "IN_FIELD", Append(field, c), fields)
               [] state = "IN_QUOTED_FIELD" ->
                    IF c = "\"" THEN CsvParse(rest, "QUOTE_IN_QUOTED_FIELD", field, fields)
                    ELSE CsvParse(rest, "IN_QUOTED_FIELD", Append(field, c), fields)
               [] OTHER ->
                    IF c = "\"" THEN CsvParse(rest, "IN_QUOTED_FIELD", Append(field, c), fields)
                    ELSE IF c = "," THEN CsvParse(rest, "START_FIELD", <<>>, Append(fields, field))
                    ELSE CsvParse(rest, "IN_FIELD", Append(field, c), fields)

\* list(csv.reader(f)): the fields of every line
csv_reader(lines) ==
    [i \in 1..Len(lines) |->
        IF lines[i] = <<>> THEN <<>> ELSE CsvParse(lines[i], "START_FIELD", <<>>, <<>>)]

(***************************************************************************)
(* Bounds of the model                                                     *)
(***************************************************************************)

\* at most MaxTx transactions are ever inserted
MaxTx == 2

\* at most MaxGoals goals are ever added
MaxGoals == 2

(***************************************************************************)
(* The program: main, FinanceApp's handlers, AddGoalDialog                 *)
(***************************************************************************)

\* the message boxes of the handlers
NoMsg == "none"

MsgDate == "Date must be in YYYY-MM-DD format."

MsgAmount == "Amount must be a positive number (e.g. 12.50)."

MsgSaved == "Transaction saved."

MsgRequired == "Name and target amount are required."

MsgTarget == "Target amount must be a positive number."

MsgDeadline == "Deadline must be YYYY-MM-DD or left empty."

MsgGoalAdded == "Goal added."

\* the handler that ran last, the transaction id it inserted or deleted and
\* the goal name it read (0 and "" when it has none)
Ran(op, id, goal_name) == [op |-> op, id |-> id, goal_name |-> goal_name]

\* try: datetime.fromisoformat(d) / except Exception
ValidDate(d) == fromisoformat(d).ok

\* try: dec = Decimal(amt); if dec <= 0: raise InvalidOperation / except
\* Exception (comparing a NaN raises InvalidOperation too)
ValidAmount(amt) ==
    LET dec == Decimal(amt)
    IN  dec.kind \notin {"error", "nan"} /\ ~LeqZero(dec)

\* the store file does not exist before the first start
Init ==
    /\ pc = "main"
    /\ schema = FALSE
    /\ categories = <<>>
    /\ goals = <<>>
    /\ transactions = {}
    /\ tx_seq = 0
    /\ msg = NoMsg
    /\ last = Ran("none", 0, <<>>)

\* init_db: CREATE TABLE IF NOT EXISTS, then the default categories when
\* the table is empty
init_db ==
    /\ schema' = TRUE
    /\ categories' = SeededCategories(categories)
    /\ UNCHANGED <<goals, transactions, tx_seq>>

\* main: init_db(), then the application object is built
MainInitDb ==
    /\ pc = "main"
    /\ init_db
    /\ pc' = "ctor"
    /\ msg' = NoMsg
    /\ last' = Ran("init_db", 0, <<>>)

\* FinanceApp.__init__: init_db() again, then the event loop runs
CtorInitDb ==
    /\ pc = "ctor"
    /\ init_db
    /\ pc' = "loop"
    /\ msg' = NoMsg
    /\ last' = Ran("init_db", 0, <<>>)

\* the window is closed; the next start finds the same finance.db
Quit ==
    /\ pc = "loop"
    /\ pc' = "main"
    /\ msg' = NoMsg
    /\ last' = Ran("none", 0, <<>>)
    /\ UNCHANGED store

\* FinanceApp.on_add_transaction; the arguments are the contents of the
\* form's variables when the button is pressed.  refresh_transactions and
\* refresh_goals afterwards recompute the widgets from the store.
on_add_transaction(date_var, type_var, cat_var, amt_var, notes_var, goal_var) ==
    LET d == Strip(date_var)
        t == Strip(type_var)
        cat == Strip(cat_var)
        amt == Strip(amt_var)
        notes == Strip(notes_var)
        goal_name == Strip(goal_var)
        goal_id == IF goal_name # <<>> THEN GoalIdByName(goals, goal_name)
                   ELSE NoGoal
    IN  /\ pc = "loop"
        /\ tx_seq < MaxTx
        /\ pc' = pc
        /\ IF ~ValidDate(d)
             THEN /\ msg' = MsgDate
                  /\ last' = Ran("on_add_transaction", 0, goal_name)
                  /\ UNCHANGED store
           ELSE IF ~ValidAmount(amt)
             THEN /\ msg' = MsgAmount
                  /\ last' = Ran("on_add_transaction", 0, goal_name)
                  /\ UNCHANGED store
           ELSE /\ transactions' =
                     add_transaction(transactions, tx_seq, d, t, cat,
                                     Decimal(amt), notes, goal_id)
                /\ tx_seq' = tx_seq + 1
                /\ msg' = MsgSaved
                /\ last' = Ran("on_add_transaction", tx_seq + 1, goal_name)
                /\ UNCHANGED <<schema, categories, goals>>

\* FinanceApp.on_delete_selected for the selected row id, the question
\* answered yes
on_delete_selected(tx_id) ==
    /\ pc = "loop"
    /\ transactions' = delete_transaction(transactions, tx_id)
    /\ pc' = pc
    /\ msg' = NoMsg
    /\ last' = Ran("on_delete_selected", tx_id, <<>>)
    /\ UNCHANGED <<schema, categories, goals, tx_seq>>

\* FinanceApp.on_add_goal opens the modal dialog and waits for it
OpenGoalDialog ==
    /\ pc = "loop"
    /\ Len(goals) < MaxGoals
    /\ pc' = "dialog"
    /\ msg' = NoMsg
    /\ last' = Ran("on_add_goal", 0, <<>>)
    /\ UNCHANGED store

\* AddGoalDialog.on_add: a rejected input leaves the dialog open; an
\* accepted one closes it and on_add_goal inserts the goal
AddGoalDialog_on_add(name_var, target_var, deadline_var) ==
    LET name == Strip(name_var)
        target == Strip(target_var)
        deadline == IF Strip(deadline_var) = <<>> THEN None ELSE Strip(deadline_var)
    IN  /\ pc = "dialog"
        /\ last' = Ran("AddGoalDialog.on_add", 0, name)
        /\ IF name = <<>> \/ target = <<>>
             THEN msg' = MsgRequired /\ pc' = pc /\ UNCHANGED store
           ELSE IF ~ValidAmount(target)
             THEN msg' = MsgTarget /\ pc' = pc /\ UNCHANGED store
           ELSE IF Truthy(deadline) /\ ~ValidDate(deadline)
             THEN msg' = MsgDeadline /\ pc' = pc /\ UNCHANGED store
           ELSE /\ goals' = add_goal(goals, name, Decimal(target), deadline)
                /\ msg' = MsgGoalAdded
                /\ pc' = "loop"
                /\ UNCHANGED <<schema, categories, transactions, tx_seq>>

\* AddGoalDialog.on_cancel: the dialog closes without a result
AddGoalDialog_on_cancel ==
    /\ pc = "dialog"
    /\ pc' = "loop"
    /\ msg' = NoMsg
    /\ last' = Ran("AddGoalDialog.on_cancel", 0, <<>>)
    /\ UNCHANGED store

(***************************************************************************)
(* What the user types.  Spec exercises the ledger with goals and the      *)
(* amount texts; SpecDates exercises the date texts and the date queries.  *)
(***************************************************************************)

FoodText == <<"F", "o", "o", "d">>

CarText == <<"C", "a", "r">>

TripText == <<"T", "r", "i", "p">>

Feb15 == <<"2", "0", "2", "4", "-", "0", "2", "-", "1", "5">>

\* no calendar date: February has 29 days in 2024
Feb30 == <<"2", "0", "2", "4", "-", "0", "2", "-", "3", "0">>

NaNText == <<"N", "a", "N">>

LedgerDates == {Feb15, Feb30}

LedgerAmounts ==
    { <<"1">>, <<"1", "e", "2", "8">>, InfinityText,
      <<"a", "b", "c">>, <<"0">>, <<"-", "5">>, <<>>, NaNText }

LedgerGoalNames == {<<>>, CarText, TripText}

GoalTargets == {<<"1", "0", "0">>, <<"a", "b", "c">>, <<"0">>, <<>>}

GoalDeadlines == {<<>>, Feb30}

\* the texts of the ledger that on_add_transaction accepts
AcceptedLedgerDates == {d \in LedgerDates : ValidDate(d)}

AcceptedLedgerAmounts == {amt \in LedgerAmounts : ValidAmount(amt)}

UserAddsTransaction ==
    \E d \in LedgerDates, amt \in LedgerAmounts, g \in LedgerGoalNames :
        on_add_transaction(d, ExpenseText, FoodText, amt, <<>>, g)

UserDeletes == \E tx_id \in 1..(MaxTx + 1) : on_delete_selected(tx_id)

UserAddsGoal ==
    \E n \in LedgerGoalNames, t \in GoalTargets, dl \in GoalDeadlines :
        AddGoalDialog_on_add(n, t, dl)

Next ==
    \/ MainInitDb
    \/ CtorInitDb
    \/ Quit
    \/ UserAddsTransaction
    \/ UserDeletes
    \/ OpenGoalDialog
    \/ UserAddsGoal
    \/ AddGoalDialog_on_cancel

Spec == Init /\ [][Next]_vars

(***************************************************************************)
(* SpecDates: the date texts around a month's and a year's end             *)
(***************************************************************************)

Nov30 == <<"2", "0", "2", "4", "-", "1", "1", "-", "3", "0">>

Dec31 == <<"2", "0", "2", "4", "-", "1", "2", "-", "3", "1">>

\* a date with a time of day
Dec31Time ==
    <<"2", "0", "2", "4", "-", "1", "2", "-", "3", "1", "T", "1", "0", ":", "3", "0">>

Jan01 == <<"2", "0", "2", "5", "-", "0", "1", "-", "0", "1">>

DateTexts == {Nov30, Dec31, Dec31Time, Jan01, Feb30}

DatedAmounts == {<<"0", "0", "1", "2", ".", "5", "0">>, <<"3", "e", "2">>}

\* the months update_month_summary is run for (the month of today)
Months ==
    { <<"2", "0", "2", "4", "-", "1", "1">>, <<"2", "0", "2", "4", "-", "1", "2">>,
      <<"2", "0", "2", "5", "-", "0", "1">> }

\* fetch_transactions' default limit
DefaultLimit == 2000

UserAddsDatedTransaction ==
    \E d \in DateTexts, t \in {IncomeText, ExpenseText}, amt \in DatedAmounts :
        on_add_transaction(d, t, FoodText, amt, <<>>, <<>>)

NextDates ==
    \/ MainInitDb
    \/ CtorInitDb
    \/ Quit
    \/ UserAddsDatedTransaction
    \/ UserDeletes

SpecDates == Init /\ [][NextDates]_vars

(***************************************************************************)
(* SpecCsv: amounts, notes and goal names as they reach the CSV export     *)
(***************************************************************************)

CsvAmounts == {<<"1", "2", ".", "5">>, <<"1", "2", ".", "5", "0">>}

\* notes holding the delimiter and the quote character
CsvNotes == {<<>>, <<"a", ",", "\"", "b">>}

\* on_export_csv's limit
ExportLimit == 10000

UserAddsNotedTransaction ==
    \E amt \in CsvAmounts, notes \in CsvNotes, g \in {<<>>, CarText} :
        on_add_transaction(Feb15, ExpenseText, FoodText, amt, notes, g)

UserAddsNamedGoal ==
    \E t \in GoalTargets, dl \in {<<>>, Dec31} :
        AddGoalDialog_on_add(CarText, t, dl)

NextCsv ==
    \/ MainInitDb
    \/ CtorInitDb
    \/ Quit
    \/ UserAddsNotedTransaction
    \/ UserDeletes
    \/ OpenGoalDialog
    \/ UserAddsNamedGoal
    \/ AddGoalDialog_on_cancel

SpecCsv == Init /\ [][NextCsv]_vars

(***************************************************************************)
(* Claims                                                                  *)
(***************************************************************************)

ValidationMsgs == {MsgDate, MsgAmount, MsgRequired, MsgTarget, MsgDeadline}

\* an amount text the specification rejects: no decimal numeral (digits with
\* an optional sign, fraction and exponent), or a numeral whose value is <= 0
BadAmountText(amt) == Decimal(amt).kind # "fin" \/ LeqZero(Decimal(amt))

\* C1: an add-transaction or an add-goal whose amount text is no decimal
\* numeral, or is <= 0, is rejected with a validation message and leaves
\* the transactions, the goals and the categories as they were.
C1_BadAmountRejected ==
    [][ /\ \A d \in LedgerDates, amt \in LedgerAmounts, g \in LedgerGoalNames :
             (BadAmountText(amt)
                /\ on_add_transaction(d, ExpenseText, FoodText, amt, <<>>, g))
             => (msg' \in ValidationMsgs
                   /\ UNCHANGED <<transactions, goals, categories>>)
        /\ \A n \in LedgerGoalNames, t \in GoalTargets, dl \in GoalDeadlines :
             (BadAmountText(t) /\ AddGoalDialog_on_add(n, t, dl))
             => (msg' \in ValidationMsgs
                   /\ UNCHANGED <<transactions, goals, categories>>) ]_vars

\* the exact sum of two amounts (no rounding), for the amounts the store
\* can hold: positive numbers and Infinity
ExactAdd(a, b) ==
    IF a.kind = "inf" \/ b.kind = "inf" THEN Special("inf", 0)
    ELSE LET exp == Min(a.exp, b.exp)
             x0 == a.int \o Zeros(a.exp - exp)
             y0 == b.int \o Zeros(b.exp - exp)
             n == Max(Len(x0), Len(y0))
         IN  Fin(0, StripLeadingZeros(AddAligned(PadLeft(x0, n), PadLeft(y0, n), 0)),
                 exp)

\* the exact sum of the amounts of rows, written at the smallest exponent
\* among them; 0 for no rows
RECURSIVE ExactSum(_)
ExactSum(rows) ==
    IF rows = <<>> THEN DecZero
    ELSE IF Len(rows) = 1 THEN Decimal(rows[1].amount)
    ELSE ExactAdd(ExactSum(SubSeq(rows, 1, Len(rows) - 1)),
                  Decimal(rows[Len(rows)].amount))

LinkedRows(gid) == ById({r \in transactions : r.goal_id = gid})

Progress(gid) == get_goals(goals, transactions)[gid].progress

TxIds == {r.id : r \in transactions}

\* C3 as claimed: the progress get_goals reports for every goal is the
\* exact sum of the amounts of the transactions linked to it, 0 without any.
C3_ProgressIsExactSum ==
    \A gid \in 1..Len(goals) : DecEq(Progress(gid), ExactSum(LinkedRows(gid)))

\* C3 as amended: the progress is the exact sum whenever that sum, written
\* at the smallest exponent among the linked amounts, has at most Prec
\* digits (or is Infinity); 0 without linked transactions.
C3_ProgressIsSumWithinPrec ==
    \A gid \in 1..Len(goals) :
        LET exact == ExactSum(LinkedRows(gid))
        IN  (exact.kind = "inf" \/ Len(exact.int) <= Prec)
              => DecEq(Progress(gid), exact)

\* C3 witness: a goal with two linked transactions whose sum fits the
\* precision, right after a transaction that once existed was deleted
C3_Witness ==
    /\ last.op = "on_delete_selected"
    /\ last.id <= tx_seq /\ last.id \notin TxIds
    /\ \E gid \in 1..Len(goals) :
         /\ Len(LinkedRows(gid)) >= 1
         /\ ExactSum(LinkedRows(gid)).kind = "fin"
         /\ ~IsZero(Progress(gid))

\* C4: delete_transaction never fails, removes the row with the id and no
\* other row, changes nothing when the id is absent, and a second call
\* with the same id changes nothing.
C4_DeleteIdempotent ==
    [][ \A tx_id \in 1..(MaxTx + 1) :
          on_delete_selected(tx_id) =>
            /\ msg' \notin ValidationMsgs
            /\ \A r \in transactions : r.id # tx_id => r \in transactions'
            /\ \A r \in transactions' : r \in transactions /\ r.id # tx_id
            /\ delete_transaction(transactions', tx_id) = transactions'
            /\ (tx_id \notin TxIds => UNCHANGED store) ]_vars

\* C4 witness: an id that is not in the table was just deleted while other
\* rows exist
C4_Witness ==
    /\ last.op = "on_delete_selected"
    /\ last.id \notin TxIds
    /\ transactions # {}

\* C8: once init_db has run, the categories are exactly the nine default
\* names, each once, however often it runs again; and a run of init_db
\* leaves the transactions and the goals alone.
C8_InitIdempotent ==
    /\ [](schema => /\ categories = default_cats
                    /\ Len(categories) = 9
                    /\ \A i, j \in 1..Len(categories) :
                         categories[i] = categories[j] => i = j)
    /\ [][(MainInitDb \/ CtorInitDb) => UNCHANGED <<transactions, goals>>]_vars

\* C8 witness: init_db has just run again on a store that already holds
\* transactions and goals
C8_Witness ==
    /\ last.op = "init_db"
    /\ pc = "loop"
    /\ transactions # {}
    /\ goals # <<>>

\* C10: an add-transaction with a valid date and amount and a non-empty
\* goal name that no goal carries is saved: exactly one row is inserted,
\* without a goal reference, and no goal's progress changes.
C10_UnmatchedGoalSaved ==
    [][ (/\ last'.op = "on_add_transaction"
         /\ last'.goal_name # <<>>
         /\ \A i \in 1..Len(goals) : goals[i].name # last'.goal_name)
        => \A d \in AcceptedLedgerDates, amt \in AcceptedLedgerAmounts :
             on_add_transaction(d, ExpenseText, FoodText, amt, <<>>,
                                last'.goal_name)
             => /\ msg' = MsgSaved
                /\ \E r \in transactions' :
                     /\ r \notin transactions
                     /\ r.goal_id = NoGoal
                     /\ transactions' = transactions \cup {r}
                /\ goals' = goals
                /\ get_goals(goals', transactions')
                     = get_goals(goals, transactions) ]_vars

\* C10 witness: a transaction was just saved under a goal name no goal
\* carries, while goals exist
C10_Witness ==
    /\ last.op = "on_add_transaction"
    /\ msg = MsgSaved
    /\ last.goal_name # <<>>
    /\ goals # <<>>
    /\ \A i \in 1..Len(goals) : goals[i].name # last.goal_name
    /\ \E r \in transactions : r.id = last.id /\ r.goal_id = NoGoal

\* a text in the form YYYY-MM-DD naming a day of the calendar
IsCalendarDate(text) == Len(text) = 10 /\ fromisoformat(text).ok

\* the calendar day a stored date text names
CalDate(text) ==
    LET p == fromisoformat(text) IN <<p.y, p.m, p.d>>

\* a is an earlier calendar day than b
CalLess(a, b) ==
    \/ a[1] < b[1]
    \/ a[1] = b[1] /\ a[2] < b[2]
    \/ a[1] = b[1] /\ a[2] = b[2] /\ a[3] < b[3]

CalLeq(a, b) == a = b \/ CalLess(a, b)

\* C2: every transaction in the store carries a calendar date in the form
\* YYYY-MM-DD, since add-transaction rejects every other date text before
\* it inserts.
C2_StoredDatesAreCalendarDates ==
    \A r \in transactions : IsCalendarDate(r.date)

\* the transactions whose calendar day lies in the month "YYYY-MM"
RowsOfMonth(month_year, ttype) ==
    {r \in transactions :
        /\ r.type = ttype
        /\ CalDate(r.date)[1] = IntOf(Take(month_year, 4))
        /\ CalDate(r.date)[2] = IntOf(Drop(month_year, 5))}

\* C5: for every month the summary's income and expense are the sums of
\* the Income and the Expense transactions whose day lies in the month,
\* and the balance is income - expense.
C5_MonthSummarySumsTheMonth ==
    \A my \in Months :
        LET s == update_month_summary(transactions, my)
            income == ExactSum(ById(RowsOfMonth(my, IncomeText)))
            expense == ExactSum(ById(RowsOfMonth(my, ExpenseText)))
        IN  /\ DecEq(s.income, income)
            /\ DecEq(s.expense, expense)
            /\ DecEq(s.bal, DecSub(income, expense))

\* C6: without filters fetch_transactions returns min(limit, all) rows, a
\* later day before an earlier one and, within a day, a higher id before a
\* lower one; every row left out comes after every row returned.
C6_NewestFirstThenHighestId ==
    \A category \in {AllText, None}, limit \in 0..(MaxTx + 1) :
        LET rows == fetch_transactions(goals, transactions, None, None,
                                       category, None, limit)
            returned == {rows[i].id : i \in 1..Len(rows)}
            Precedes(a, b) ==
                \/ CalLess(CalDate(b.date), CalDate(a.date))
                \/ CalDate(a.date) = CalDate(b.date) /\ a.id > b.id
        IN  /\ Len(rows) = Min(limit, Cardinality(transactions))
            /\ Cardinality(returned) = Len(rows)
            /\ returned \subseteq TxIds
            /\ \A i, j \in 1..Len(rows) : i < j => Precedes(rows[i], rows[j])
            /\ \A a, b \in transactions :
                 (a.id \in returned /\ b.id \notin returned) => Precedes(a, b)

\* the date bounds a query is given
QueryDates == {d \in DateTexts : IsCalendarDate(d)}

\* C7: right after an add-transaction that was accepted, every query whose
\* date range covers the day of the new transaction returns exactly one
\* row for it, and the amount of that row is the amount that was entered.
C7_AddThenQueryFindsRow ==
    [][ (last'.op = "on_add_transaction" /\ msg' = MsgSaved)
        => \A d \in DateTexts, t \in {IncomeText, ExpenseText},
              amt \in DatedAmounts :
             on_add_transaction(d, t, FoodText, amt, <<>>, <<>>)
             => \A date_from, date_to \in QueryDates :
                  (/\ CalLeq(CalDate(date_from), CalDate(d))
                   /\ CalLeq(CalDate(d), CalDate(date_to)))
                  => LET rows == fetch_transactions(goals', transactions',
                                   date_from, date_to, None, None, DefaultLimit)
                         hits == {i \in 1..Len(rows) : rows[i].id = last'.id}
                     IN  /\ Cardinality(hits) = 1
                         /\ \A i \in hits :
                              DecEq(Decimal(rows[i].amount), Decimal(amt)) ]_vars

\* the rows of a query as (date, type, category, amount, notes, goal_name),
\* an absent text read as the empty text
RowTuples(rows) ==
    [i \in 1..Len(rows) |->
        <<rows[i].date, rows[i].type, rows[i].category, rows[i].amount,
          CsvStr(rows[i].notes), CsvStr(rows[i].goal_name)>>]

\* the same six columns of the lines read back from the file, header dropped
ReadTuples(read) ==
    [i \in 1..(Len(read) - 1) |->
        <<read[i + 1][2], read[i + 1][3], read[i + 1][4], read[i + 1][5],
          read[i + 1][6], read[i + 1][7]>>]

\* C9 (round trip): the file export_transactions_csv writes for a query
\* result reads back as the same rows.
C9_RoundTrip ==
    \A search \in {None, <<"b">>} :
        LET rows == fetch_transactions(goals, transactions, None, None,
                                       AllText, search, ExportLimit)
        IN  ReadTuples(csv_reader(export_transactions_csv(rows))) = RowTuples(rows)

\* C9: the file reads back as the same rows, and every amount in it is the
\* stored amount written with two decimal places.
C9_ExportIsTwoDecimalRoundTrip ==
    \A search \in {None, <<"b">>} :
        LET rows == fetch_transactions(goals, transactions, None, None,
                                       AllText, search, ExportLimit)
            read == csv_reader(export_transactions_csv(rows))
        IN  /\ ReadTuples(read) = RowTuples(rows)
            /\ \A i \in 1..Len(rows) :
                 read[i + 1][5] = Format2f(Decimal(rows[i].amount))

(***************************************************************************)
(* C11: goal references                                                    *)
(***************************************************************************)

\* the transactions that carry a goal reference
Linked == {r \in transactions : r.goal_id # NoGoal}

\* C11: in every reachable state every transaction that carries a goal_id
\* references a goal that exists in the store, and the left join of
\* fetch_transactions gives every such transaction a non-empty goal name.
C11_NoDanglingGoal ==
    /\ \A r \in Linked : r.goal_id \in 1..Len(goals)
    /\ LET rows == fetch_transactions(goals, transactions, None, None,
                                      AllText, None, DefaultLimit)
       IN  \A i \in 1..Len(rows) :
             rows[i].goal_id # NoGoal
               => rows[i].goal_name # None /\ rows[i].goal_name # <<>>

\* C11 witness: a linked transaction and an unlinked one are in the store
\* after a delete, with two goals present
C11_Witness ==
    /\ last.op = "on_delete_selected"
    /\ Linked # {}
    /\ transactions \ Linked # {}
    /\ Len(goals) = 2

(***************************************************************************)
(* C12: an add-transaction links to one goal, names being shared or not    *)
(***************************************************************************)

\* the handler that just ran was a saved add-transaction under a goal name
\* that at least one goal carries
LinkedAddRan ==
    /\ last'.op = "on_add_transaction"
    /\ msg' = MsgSaved
    /\ last'.goal_name # <<>>
    /\ \E i \in 1..Len(goals) : goals[i].name = last'.goal_name

\* the amount of the transaction the handler inserted
AddedAmount ==
    Decimal((CHOOSE r \in transactions' : r.id = last'.id).amount)

\* the progress of goal gid before and after the step
ProgressBefore(gid) == get_goals(goals, transactions)[gid].progress

ProgressAfter(gid) == get_goals(goals', transactions')[gid].progress

\* C12 as claimed: a saved add-transaction with goal name N raises the
\* progress of exactly one goal named N by the transaction amount and
\* leaves the progress of every other goal unchanged, goals that share the
\* name N included.
C12_OneGoalRaisedByAmount ==
    [][ LinkedAddRan
        => /\ goals' = goals
           /\ \E g \in 1..Len(goals) :
                /\ goals[g].name = last'.goal_name
                /\ DecEq(ProgressAfter(g), ExactAdd(ProgressBefore(g), AddedAmount))
                /\ \A h \in 1..Len(goals) \ {g} :
                     ProgressAfter(h) = ProgressBefore(h) ]_vars

\* C12 as amended: the same, the raise being exact whenever the sum of the
\* amounts then linked to that goal, written at the smallest exponent among
\* them, has at most Prec digits (or is Infinity); the one goal is the
\* goal the new transaction references.
C12_OneGoalRaisedWithinPrec ==
    [][ LinkedAddRan
        => /\ goals' = goals
           /\ \E g \in 1..Len(goals) :
                /\ goals[g].name = last'.goal_name
                /\ (CHOOSE r \in transactions' : r.id = last'.id).goal_id = g
                /\ LET exact == ExactSum(ById({r \in transactions' : r.goal_id = g}))
                   IN  (exact.kind = "inf" \/ Len(exact.int) <= Prec)
                         => DecEq(ProgressAfter(g),
                                  ExactAdd(ProgressBefore(g), AddedAmount))
                /\ \A h \in 1..Len(goals) \ {g} :
                     ProgressAfter(h) = ProgressBefore(h) ]_vars

\* C12 witness: two goals share a name, a transaction was just saved under
\* that name, and one of the two goals has progress while the other has none
C12_Witness ==
    /\ last.op = "on_add_transaction"
    /\ msg = MsgSaved
    /\ Len(goals) = 2
    /\ goals[1].name = goals[2].name
    /\ last.goal_name = goals[1].name
    /\ \E r \in transactions : r.id = last.id /\ r.goal_id # NoGoal
    /\ \E g, h \in 1..2 :
         /\ ~IsZero(Progress(g)) /\ Progress(g).kind = "fin"
         /\ IsZero(Progress(h))

====
